---- MODULE Spec2Model ----
(***************************************************************************)
(* A model of the three stages of the e-commerce data pipeline:            *)
(*   scripts/generate_data.py  the dataset generator,                      *)
(*   db/ingest.py              the loader / validator,                     *)
(*   db/queries.py             the query runner.                           *)
(* Each stage is a sequential program; its position is a pc variable.      *)
(* Money is counted in mills (1/1000 of a currency unit) so that rounding  *)
(* to 2 decimals (to a multiple of 10 mills) is an operation that can      *)
(* change a value.  Dates are day numbers.                                 *)
(***************************************************************************)
EXTENDS Integers, Sequences, FiniteSets, TLC

VARIABLES
    \* ---- db/ingest.py
    ipc,        \* position of ingest(): idle, reset, create, load, validate,
                \* commit, exit, raise, done, aborted
    idx,        \* index of the loop of the current phase (1..5)
    db,         \* the store as committed (what another connection sees)
    work,       \* the store as the stage's connection sees it
    inTxn,      \* whether the connection has an open transaction
    connOpen,   \* whether the stage's connection is open
    frames,     \* frames: table name -> the rows read from its file
    counts,     \* the row counts reported by validation_reports
    error,      \* the exception that is propagating, "" when none
    db0,        \* history: the committed store when the run began
    hadRows,    \* history: whether that store held any row
    \* ---- scripts/generate_data.py
    gpc,        \* position of main(): start, customers, products, orders,
                \* items, payments, save, done
    today,      \* the current date of the run (the environment's clock)
    customers,  \* the five collections, as main() holds them
    products,
    orders,
    order_items,
    payments,
    item_id,    \* generate_order_items: the next order item id
    tape,       \* the values the seeded generators yield, in call order
    rpos,       \* how many values of the tape this run has consumed
    files,      \* the data directory: file name -> records written
    run,        \* history: the number of the run of main()
    prevFiles,  \* history: the files as the previous run left them
    \* ---- db/queries.py
    qpc,        \* position of main(): idle, run, exit, raise, done, aborted
    qidx,       \* index of the query being run (1..5)
    qdb,        \* the store the queries read: whether it holds the tables,
                \* and the rows of its orders table
    qconnOpen,  \* whether the stage's connection is open
    monthly,    \* the result set of monthly_sales
    outputs     \* the output directory: the names of the files written

ivars == <<ipc, idx, db, work, inTxn, connOpen, frames, counts, error, db0,
           hadRows>>

gvars == <<gpc, today, customers, products, orders, order_items, payments,
           item_id, tape, rpos, files, run, prevFiles>>

qvars == <<qpc, qidx, qdb, qconnOpen, monthly, outputs>>

vars == <<ivars, gvars, qvars>>

-----------------------------------------------------------------------------
(* Bounds of the loader's inputs *)

\* ids and emails of the rows in the input files are drawn from 1..MaxId
MaxId == 1

\* an input file holds at most MaxRows rows
MaxRows == 2

IDS == 1..MaxId

SeqsUpTo(S, n) == UNION {[1..k -> S] : k \in 0..n}

-----------------------------------------------------------------------------
(* db/ingest.py : the schema *)

\* TABLE_SCHEMAS / CSV_CONFIG keys, in insertion order
TABLES == <<"customers", "products", "orders", "order_items", "payments">>

TableNames == {TABLES[i] : i \in 1..Len(TABLES)}

\* the FOREIGN KEY clauses of TABLE_SCHEMAS
FKS ==
    { [child |-> "orders",      col |-> "customer_id", parent |-> "customers"],
      [child |-> "order_items", col |-> "order_id",    parent |-> "orders"],
      [child |-> "order_items", col |-> "product_id",  parent |-> "products"],
      [child |-> "payments",    col |-> "order_id",    parent |-> "orders"] }

\* the tables that declare a foreign key to table t
Children(t) == {fk.child : fk \in {f \in FKS : f.parent = t}}

\* the rows a file of table t may hold (key, unique and foreign-key columns)
RowsOf(t) ==
    CASE t = "customers"   -> [id : IDS, email : IDS]
      [] t = "products"    -> [id : IDS]
      [] t = "orders"      -> [id : IDS, customer_id : IDS]
      [] t = "order_items" -> [id : IDS, order_id : IDS, product_id : IDS]
      [] t = "payments"    -> [id : IDS, order_id : IDS]

\* pd.read_csv(csv_path): any file of at most MaxRows rows
CsvFiles(t) == SeqsUpTo(RowsOf(t), MaxRows)

NoTable == [exists |-> FALSE, rows |-> <<>>]

EmptyTable == [exists |-> TRUE, rows |-> <<>>]

EmptyStore == [t \in TableNames |-> NoTable]

NoFrames == [t \in TableNames |-> <<>>]

NoCounts == [t \in TableNames |-> 0]

IdsOf(view, t) == {view[t].rows[i].id : i \in 1..Len(view[t].rows)}

-----------------------------------------------------------------------------
(* db/ingest.py : statements against the store, foreign keys enforced *)

DropOrderForward == TABLES

\* reset_tables: for table in reversed(tables)
DropOrder == [i \in 1..Len(TABLES) |-> TABLES[Len(TABLES) + 1 - i]]

\* a row of an existing child table references a row of t
Referenced(view, t) ==
    \E fk \in FKS :
        /\ fk.parent = t
        /\ view[fk.child].exists
        /\ \E i \in 1..Len(view[fk.child].rows) :
                view[fk.child].rows[i][fk.col] \in IdsOf(view, t)

DropTableKeep(view, t) == [ok |-> TRUE, view |-> view]

\* DROP TABLE IF EXISTS t: with foreign keys on, the drop deletes the rows of
\* t first and fails when a child row still references one of them
DropTable(view, t) ==
    IF ~view[t].exists THEN [ok |-> TRUE, view |-> view]
    ELSE IF Referenced(view, t) THEN [ok |-> FALSE, view |-> view]
    ELSE [ok |-> TRUE, view |-> [view EXCEPT ![t] = NoTable]]

\* CREATE TABLE IF NOT EXISTS t
CreateTable(view, t) ==
    IF view[t].exists THEN view ELSE [view EXCEPT ![t] = EmptyTable]

\* the constraint a row r breaks when appended to table t
Violates(view, t, r) ==
    \/ r.id \in IdsOf(view, t)
    \/ /\ t = "customers"
       /\ \E i \in 1..Len(view[t].rows) : view[t].rows[i].email = r.email
    \/ \E fk \in FKS :
        /\ fk.child = t
        /\ r[fk.col] \notin IdsOf(view, fk.parent)

RECURSIVE InsertRows(_, _, _)
\* df.to_sql(table_name, conn, if_exists="append"): the rows are inserted in
\* file order inside one transaction; the first violation raises
InsertRows(view, t, rows) ==
    IF rows = <<>> THEN [ok |-> TRUE, view |-> view]
    ELSE IF Violates(view, t, Head(rows)) THEN [ok |-> FALSE, view |-> view]
    ELSE InsertRows([view EXCEPT ![t].rows = Append(@, Head(rows))],
                    t, Tail(rows))

-----------------------------------------------------------------------------
(* db/ingest.py : ingest() *)

IInit ==
    /\ ipc = "idle"
    /\ idx = 1
    /\ db = EmptyStore
    /\ work = EmptyStore
    /\ inTxn = FALSE
    /\ connOpen = FALSE
    /\ frames = NoFrames
    /\ counts = NoCounts
    /\ error = ""
    /\ db0 = EmptyStore
    /\ hadRows = FALSE

\* get_connection(): connect, PRAGMA foreign_keys = ON
GetConnection ==
    /\ ipc = "idle"
    /\ ipc' = "reset"
    /\ idx' = 1
    /\ connOpen' = TRUE
    /\ inTxn' = FALSE
    /\ work' = db
    /\ frames' = NoFrames
    /\ counts' = NoCounts
    /\ error' = ""
    /\ hadRows' = \E t \in TableNames : db[t].rows # <<>>
    /\ UNCHANGED db

Connect == GetConnection /\ UNCHANGED <<db0, gvars, qvars>>

\* the same, recording the store the run starts from
ConnectSnap == GetConnection /\ db0' = db /\ UNCHANGED <<gvars, qvars>>

\* one iteration of reset_tables.  A DDL statement opens no transaction in
\* the sqlite3 module: outside a transaction it is committed as it runs.
ResetStep ==
    /\ ipc = "reset"
    /\ LET res == DropTable(work, DropOrder[idx])
       IN  IF res.ok
           THEN /\ work' = res.view
                /\ db' = IF inTxn THEN db ELSE res.view
                /\ error' = error
                /\ IF idx < Len(TABLES)
                   THEN ipc' = ipc /\ idx' = idx + 1
                   ELSE ipc' = "create" /\ idx' = 1
           ELSE /\ error' = "drop"
                /\ ipc' = "raise"
                /\ UNCHANGED <<work, db, idx>>
    /\ UNCHANGED <<inTxn, connOpen, frames, counts, db0, hadRows, gvars, qvars>>

\* one iteration of create_tables
CreateStep ==
    /\ ipc = "create"
    /\ LET view == CreateTable(work, TABLES[idx])
       IN  /\ work' = view
           /\ db' = IF inTxn THEN db ELSE view
    /\ IF idx < Len(TABLES)
       THEN ipc' = ipc /\ idx' = idx + 1
       ELSE ipc' = "load" /\ idx' = 1
    /\ UNCHANGED <<inTxn, connOpen, frames, counts, error, db0, hadRows, gvars, qvars>>

\* one iteration of the load loop: frames[table] = load_csv(table, conn).
\* to_sql inserts inside a transaction of its own, which it commits when the
\* insert succeeds and rolls back, re-raising, when it fails.
LoadCsv ==
    /\ ipc = "load"
    /\ \E df \in CsvFiles(TABLES[idx]) :
        LET res == InsertRows(work, TABLES[idx], df)
        IN  IF res.ok
            THEN /\ work' = res.view
                 /\ db' = res.view
                 /\ frames' = [frames EXCEPT ![TABLES[idx]] = df]
                 /\ error' = error
                 /\ IF idx < Len(TABLES)
                    THEN ipc' = ipc /\ idx' = idx + 1
                    ELSE ipc' = "validate" /\ idx' = 1
            ELSE /\ work' = db
                 /\ error' = "insert"
                 /\ ipc' = "raise"
                 /\ UNCHANGED <<db, frames, idx>>
    /\ inTxn' = FALSE
    /\ UNCHANGED <<connOpen, counts, db0, hadRows, gvars, qvars>>

\* validation_reports(frames, conn): SELECT COUNT(*) per table
ValidationReports ==
    /\ ipc = "validate"
    /\ counts' = [t \in TableNames |-> Len(work[t].rows)]
    /\ ipc' = "commit"
    /\ UNCHANGED <<idx, db, work, inTxn, connOpen, frames, error, db0, hadRows, gvars, qvars>>

\* conn.commit()
Commit ==
    /\ ipc = "commit"
    /\ db' = work
    /\ inTxn' = FALSE
    /\ ipc' = "exit"
    /\ UNCHANGED <<idx, work, connOpen, frames, counts, error, db0, hadRows, gvars, qvars>>

\* leaving "with get_connection() as conn": the connection's context manager
\* commits on the normal path and rolls back when an exception escapes; it
\* does not close the connection
WithExit ==
    /\ ipc \in {"exit", "raise"}
    /\ IF ipc = "exit"
       THEN /\ db' = work
            /\ work' = work
            /\ ipc' = "done"
       ELSE /\ work' = db
            /\ db' = db
            /\ ipc' = "aborted"
    /\ inTxn' = FALSE
    /\ UNCHANGED <<idx, connOpen, frames, counts, error, db0, hadRows, gvars, qvars>>

\* the stage is over (ingest() has returned or the exception has left it); the
\* process ends: its memory is gone and the operating system releases what
\* is still open
StageEnd ==
    /\ ipc \in {"done", "aborted"}
    /\ ipc' = "idle"
    /\ connOpen' = FALSE
    /\ frames' = NoFrames
    /\ counts' = NoCounts
    /\ error' = ""
    /\ UNCHANGED <<idx, db, work, inTxn, db0, hadRows, gvars, qvars>>

-----------------------------------------------------------------------------
(* scripts/generate_data.py : sizes, scaled down *)
(* The records keep the columns that keys, amounts and dates are computed  *)
(* from: ids, foreign keys, email, price, quantity, total_amount and the   *)
(* three dates.  The free-text and categorical columns (name, phone, city, *)
(* category, payment_method, status) are independent draws that no other   *)
(* value depends on and are left out.  The two seeded generators (random   *)
(* and Faker's) are called in a fixed order and are kept as one stream.    *)

\* NUM_CUSTOMERS (300 in the source)
NUM_CUSTOMERS == 1

\* NUM_PRODUCTS (120 in the source); at least MAX_ITEMS, as in the source
NUM_PRODUCTS == 2

\* NUM_ORDERS (400 in the source)
NUM_ORDERS == 2

\* the upper end of random.randint(1, 5), the number of items of an order
MAX_ITEMS == 2

\* the upper end of random.randint(1, 4), the quantity of an item
MAX_QUANTITY == 2

\* the number of days of "-1y"; "-2y" is twice as many
YEAR == 1

\* the runs of main() that are followed
MaxRuns == 2

\* the dates a run may take place on
DAYS == 10..11

\* the addresses faker.unique.email() draws from
EMAILS == 1..(NUM_CUSTOMERS + 1)

\* the values random.uniform(5, 500) may yield, in mills
RAW_PRICES == {5004, 5015}

\* the injective sequences of length k over S: random.sample(population, k)
Samples(S, k) ==
    {f \in [1..k -> S] : \A i, j \in 1..k : i # j => f[i] # f[j]}

-----------------------------------------------------------------------------
(* scripts/generate_data.py : helpers *)

\* round(x, 2) on a value in mills: to the nearest multiple of 10, a tie to
\* the even one
Round2(x) ==
    LET q == x \div 10
        r == x % 10
    IN  IF r < 5 THEN 10 * q
        ELSE IF r > 5 THEN 10 * (q + 1)
        ELSE IF q % 2 = 0 THEN 10 * q ELSE 10 * (q + 1)

\* faker.date_between(start_date, end_date): a date of the closed interval
DateBetween(start_date, end_date) == start_date..end_date

\* the values a step draws are the next values of the seeded stream: new
\* ones in the first run after seeding, which the tape then records, and the
\* recorded ones in a run that seeds again
Consume(draws) ==
    /\ IF Len(tape) = rpos
       THEN tape' = tape \o draws
       ELSE /\ Len(tape) >= rpos + Len(draws)
            /\ SubSeq(tape, rpos + 1, rpos + Len(draws)) = draws
            /\ tape' = tape
    /\ rpos' = rpos + Len(draws)

NoFiles ==
    [f \in {"customers.csv", "products.csv", "orders.csv", "order_items.csv",
            "payments.csv"} |-> <<>>]

\* the record generate_orders appends
NewOrderByOid(oid, customer, order_date) ==
    [id |-> oid, customer_id |-> oid, order_date |-> order_date,
     total_amount |-> 0]

NewOrder(oid, customer, order_date) ==
    [id |-> oid, customer_id |-> customer.id, order_date |-> order_date,
     total_amount |-> 0]

\* line_total = round(price * quantity, 2)
LineTotal(price, quantity) == Round2(price * quantity)

RECURSIVE SumLinesNoQuantity(_, _)
SumLinesNoQuantity(chosen, qtys) ==
    IF chosen = <<>> THEN 0
    ELSE LineTotal(Head(chosen).price, 1)
            + SumLinesNoQuantity(Tail(chosen), Tail(qtys))

RECURSIVE SumLines(_, _)
\* total = 0.0; for product in chosen_products: total += line_total
SumLines(chosen, qtys) ==
    IF chosen = <<>> THEN 0
    ELSE LineTotal(Head(chosen).price, Head(qtys))
            + SumLines(Tail(chosen), Tail(qtys))

NewItemsSameId(first_id, order, chosen, qtys) ==
    [i \in 1..Len(chosen) |->
        [id |-> first_id, order_id |-> order.id,
         product_id |-> chosen[i].id, quantity |-> qtys[i],
         price |-> chosen[i].price]]

\* the records the inner loop appends for one order, item_id counting up
NewItems(first_id, order, chosen, qtys) ==
    [i \in 1..Len(chosen) |->
        [id |-> first_id + i - 1, order_id |-> order.id,
         product_id |-> chosen[i].id, quantity |-> qtys[i],
         price |-> chosen[i].price]]

PaymentStartWindow(order) == today - YEAR

\* generate_payments: start_date=order["order_date"]
PaymentStart(order) == order.order_date

-----------------------------------------------------------------------------
(* scripts/generate_data.py : main() *)

GIdle ==
    /\ gpc = "start"
    /\ customers = <<>>
    /\ products = <<>>
    /\ orders = <<>>
    /\ order_items = <<>>
    /\ payments = <<>>
    /\ item_id = 1
    /\ tape = <<>>
    /\ rpos = 0
    /\ files = NoFiles
    /\ run = 1
    /\ prevFiles = NoFiles

GInit == GIdle /\ today \in DAYS

\* configure_randomness(): seed both generators, a new Faker
ConfigureRandomness ==
    /\ gpc = "start"
    /\ gpc' = "customers"
    /\ rpos' = 0
    /\ UNCHANGED <<today, customers, products, orders, order_items, payments,
                   item_id, tape, files, run, prevFiles, ivars, qvars>>

\* one iteration of generate_customers
GenerateCustomer ==
    /\ gpc = "customers"
    /\ LET cid == Len(customers) + 1
           used == {customers[i].email : i \in 1..Len(customers)}
       IN  \E email \in EMAILS \ used :
           \E off \in 0..(2 * YEAR) :
             /\ (today - 2 * YEAR) + off
                    \in DateBetween(today - 2 * YEAR, today)
             /\ Consume(<<email, off>>)
             /\ customers' = Append(customers,
                    [id |-> cid, email |-> email,
                     signup_date |-> (today - 2 * YEAR) + off])
             /\ gpc' = IF cid = NUM_CUSTOMERS THEN "products" ELSE gpc
    /\ UNCHANGED <<today, products, orders, order_items, payments, item_id,
                   files, run, prevFiles, ivars, qvars>>

\* one iteration of generate_products
GenerateProduct ==
    /\ gpc = "products"
    /\ LET pid == Len(products) + 1
       IN  \E raw \in RAW_PRICES :
             /\ Consume(<<raw>>)
             /\ products' = Append(products,
                    [id |-> pid, price |-> Round2(raw)])
             /\ gpc' = IF pid = NUM_PRODUCTS THEN "orders" ELSE gpc
    /\ UNCHANGED <<today, customers, orders, order_items, payments, item_id,
                   files, run, prevFiles, ivars, qvars>>

\* one iteration of generate_orders
GenerateOrder ==
    /\ gpc = "orders"
    /\ LET oid == Len(orders) + 1
       IN  \E c \in 1..Len(customers) :
           \E off \in 0..YEAR :
             /\ (today - YEAR) + off \in DateBetween(today - YEAR, today)
             /\ Consume(<<c, off>>)
             /\ orders' = Append(orders,
                    NewOrder(oid, customers[c], (today - YEAR) + off))
             /\ gpc' = IF oid = NUM_ORDERS THEN "items" ELSE gpc
    /\ UNCHANGED <<today, customers, products, order_items, payments,
                   item_id, files, run, prevFiles, ivars, qvars>>

\* one iteration of the outer loop of generate_order_items, for order o:
\* every order handled so far has at least one item, so o is the first
\* order without items
GenerateOrderItems ==
    /\ gpc = "items"
    /\ LET o == 1 + Cardinality({order_items[i].order_id :
                                    i \in 1..Len(order_items)})
       IN  \E num_items \in 1..MAX_ITEMS :
           \E picks \in Samples(1..Len(products), num_items) :
           \E qtys \in [1..num_items -> 1..MAX_QUANTITY] :
             LET chosen == [i \in 1..num_items |-> products[picks[i]]]
             IN  /\ Consume(<<num_items>> \o picks \o qtys)
                 /\ order_items' = order_items
                        \o NewItems(item_id, orders[o], chosen, qtys)
                 /\ item_id' = item_id + num_items
                 /\ orders' = [orders EXCEPT ![o].total_amount =
                                    Round2(SumLines(chosen, qtys))]
                 /\ gpc' = IF o = Len(orders) THEN "payments" ELSE gpc
    /\ UNCHANGED <<today, customers, products, payments, files, run,
                   prevFiles, ivars, qvars>>

\* one iteration of generate_payments
GeneratePayment ==
    /\ gpc = "payments"
    /\ LET pid == Len(payments) + 1
           start == PaymentStart(orders[pid])
       IN  \E off \in 0..YEAR :
             /\ start + off \in DateBetween(start, today)
             /\ Consume(<<off>>)
             /\ payments' = Append(payments,
                    [id |-> pid, order_id |-> orders[pid].id,
                     payment_date |-> start + off])
             /\ gpc' = IF pid = Len(orders) THEN "save" ELSE gpc
    /\ UNCHANGED <<today, customers, products, orders, order_items, item_id,
                   files, run, prevFiles, ivars, qvars>>

\* the five save_csv calls
SaveCsv ==
    /\ gpc = "save"
    /\ files' = [f \in DOMAIN files |->
                    CASE f = "customers.csv"   -> customers
                      [] f = "products.csv"    -> products
                      [] f = "orders.csv"      -> orders
                      [] f = "order_items.csv" -> order_items
                      [] f = "payments.csv"    -> payments]
    /\ gpc' = "done"
    /\ UNCHANGED <<today, customers, products, orders, order_items, payments,
                   item_id, tape, rpos, run, prevFiles, ivars, qvars>>

\* the generator is run again, a new process, on the same day or a later one
RunAgain ==
    /\ gpc = "done"
    /\ run < MaxRuns
    /\ run' = run + 1
    /\ prevFiles' = files
    /\ today' \in {d \in DAYS : d >= today}
    /\ gpc' = "start"
    /\ customers' = <<>>
    /\ products' = <<>>
    /\ orders' = <<>>
    /\ order_items' = <<>>
    /\ payments' = <<>>
    /\ item_id' = 1
    /\ UNCHANGED <<tape, rpos, files, ivars, qvars>>

-----------------------------------------------------------------------------
(* db/queries.py : the orders table the queries read *)

\* the orders table holds at most MaxQOrders rows
MaxQOrders == 3

\* order_date values: ISO dates as the generator writes them
QDATES ==
    { [y |-> 2024, m |-> 12, d |-> 31], [y |-> 2025, m |-> 1, d |-> 1],
      [y |-> 2025, m |-> 1, d |-> 15],  [y |-> 2025, m |-> 12, d |-> 1] }

\* total_amount values, in mills: a REAL column holds any amount
QAMOUNTS == {1004, 1005, 2500}

\* the contents of the orders table: rows with ids 1..k
OrderTables ==
    UNION { { [i \in 1..k |-> [id |-> i, order_date |-> f[i][1],
                                total_amount |-> f[i][2]]] :
                f \in [1..k -> QDATES \X QAMOUNTS] } : k \in 0..MaxQOrders }

\* the keys of QUERIES, in insertion order
QUERY_NAMES == <<"top_customers", "product_sales", "city_revenue",
                 "orders_payments", "monthly_sales">>

-----------------------------------------------------------------------------
(* db/queries.py : monthly_sales *)

StrftimeM(date) == <<0, date.m>>

\* strftime('%Y-%m', o.order_date): the text YYYY-MM, kept as <<year, month>>
StrftimeYm(date) == <<date.y, date.m>>

\* the order of two YYYY-MM texts
KeyLess(a, b) == a[1] < b[1] \/ (a[1] = b[1] /\ a[2] < b[2])

RECURSIVE SortKeys(_)
\* ORDER BY order_month
SortKeys(S) ==
    IF S = {} THEN <<>>
    ELSE LET least == CHOOSE k \in S : \A j \in S : ~KeyLess(j, k)
         IN  <<least>> \o SortKeys(S \ {least})

RECURSIVE SumAmounts(_, _)
\* SUM(o.total_amount) over the rows whose indices are in grp
SumAmounts(rows, grp) ==
    IF grp = {} THEN 0
    ELSE LET i == CHOOSE j \in grp : TRUE
         IN  rows[i].total_amount + SumAmounts(rows, grp \ {i})

\* ROUND(x, 2) of a non-negative amount in mills: a tie rounds up
RoundSql(x) == 10 * ((x + 5) \div 10)

\* ROUND(total / n, 2), the quotient taken exactly
RoundSqlDiv(total, n) == 10 * ((2 * total + 10 * n) \div (20 * n))

\* the SELECT of monthly_sales: GROUP BY strftime('%Y-%m', o.order_date)
MonthlySales(rows) ==
    LET key(i) == StrftimeYm(rows[i].order_date)
        sorted == SortKeys({key(i) : i \in 1..Len(rows)})
    IN  [n \in 1..Len(sorted) |->
            LET grp == {i \in 1..Len(rows) : key(i) = sorted[n]}
            IN  [order_month |-> sorted[n],
                 orders_count |-> Cardinality(grp),
                 total_revenue |-> RoundSql(SumAmounts(rows, grp)),
                 avg_order_value |->
                    RoundSqlDiv(SumAmounts(rows, grp), Cardinality(grp))]]

-----------------------------------------------------------------------------
(* db/queries.py : main() *)

NoDb == [exists |-> FALSE, orders |-> <<>>]

QIdle ==
    /\ qpc = "idle"
    /\ qidx = 1
    /\ qdb = NoDb
    /\ qconnOpen = FALSE
    /\ monthly = <<>>
    /\ outputs = {}

\* the store: never loaded, or loaded with any orders table
QInit ==
    /\ qpc = "idle"
    /\ qidx = 1
    /\ qdb \in {NoDb} \cup {[exists |-> TRUE, orders |-> t] : t \in OrderTables}
    /\ qconnOpen = FALSE
    /\ monthly = <<>>
    /\ outputs = {}

\* with sqlite3.connect(DB_PATH) as conn
QConnect ==
    /\ qpc = "idle"
    /\ qpc' = "run"
    /\ qidx' = 1
    /\ qconnOpen' = TRUE
    /\ monthly' = <<>>
    /\ UNCHANGED <<qdb, outputs, ivars, gvars>>

\* one iteration of the loop: run_query(name, config, conn).  A query on a
\* store without the tables raises; otherwise its result is written, an
\* empty one too.
RunQuery ==
    /\ qpc = "run"
    /\ IF ~qdb.exists
       THEN /\ qpc' = "raise"
            /\ UNCHANGED <<qidx, monthly, outputs>>
       ELSE /\ monthly' = IF QUERY_NAMES[qidx] = "monthly_sales"
                          THEN MonthlySales(qdb.orders)
                          ELSE monthly
            /\ outputs' = outputs \cup {QUERY_NAMES[qidx]}
            /\ IF qidx < Len(QUERY_NAMES)
               THEN qpc' = qpc /\ qidx' = qidx + 1
               ELSE qpc' = "exit" /\ qidx' = qidx
    /\ UNCHANGED <<qdb, qconnOpen, ivars, gvars>>

\* leaving the with block: commit or roll back, no close
QWithExit ==
    /\ qpc \in {"exit", "raise"}
    /\ qpc' = IF qpc = "exit" THEN "done" ELSE "aborted"
    /\ UNCHANGED <<qidx, qdb, qconnOpen, monthly, outputs, ivars, gvars>>

\* the stage is over and its process ends
QStageEnd ==
    /\ qpc \in {"done", "aborted"}
    /\ qpc' = "idle"
    /\ qconnOpen' = FALSE
    /\ monthly' = <<>>
    /\ qidx' = 1
    /\ UNCHANGED <<qdb, outputs, ivars, gvars>>

-----------------------------------------------------------------------------
(* The specifications: one stage runs, the others are idle *)

FirstDay == CHOOSE d \in DAYS : \A e \in DAYS : d <= e

InitIngest == IInit /\ GIdle /\ today = FirstDay /\ QIdle

InitGen == IInit /\ GInit /\ QIdle

IngestSteps ==
    \/ ResetStep
    \/ CreateStep
    \/ LoadCsv
    \/ ValidationReports
    \/ Commit
    \/ WithExit
    \/ StageEnd

INext ==
    \/ Connect
    \/ IngestSteps

\* the loader, run any number of times
SpecIngest == InitIngest /\ [][INext]_vars

ISnapNext ==
    \/ ConnectSnap
    \/ IngestSteps

\* the loader, remembering the store each run started from
SpecIngestSnap == InitIngest /\ [][ISnapNext]_vars

GenSteps ==
    \/ ConfigureRandomness
    \/ GenerateCustomer
    \/ GenerateProduct
    \/ GenerateOrder
    \/ GenerateOrderItems
    \/ GeneratePayment
    \/ SaveCsv

\* one run of the generator
SpecGen == InitGen /\ [][GenSteps]_vars

GRerunNext ==
    \/ GenSteps
    \/ RunAgain

\* the generator run MaxRuns times with the same seed
SpecRerun == InitGen /\ [][GRerunNext]_vars

InitQuery == IInit /\ GIdle /\ today = FirstDay /\ QInit

QNext ==
    \/ QConnect
    \/ RunQuery
    \/ QWithExit
    \/ QStageEnd

\* the query runner, run any number of times on a store
SpecQuery == InitQuery /\ [][QNext]_vars

-----------------------------------------------------------------------------
(* The claims *)

\* C1: when a constraint violation aborts ingest(), nothing the run did
\* remains visible: the committed store is the store the run started from.
C1_AbortLeavesNoTrace == ipc = "aborted" => db = db0

\* C2: a successful ingest() ends with every table present and holding
\* exactly the rows of its file, whatever the store held before, and the
\* reported row counts are the files' row counts; so two successive loads of
\* the same files report the same counts.
C2_FullRefresh ==
    ipc = "done" =>
        \A t \in TableNames :
            /\ db[t].exists
            /\ db[t].rows = frames[t]
            /\ counts[t] = Len(frames[t])

\* a load has succeeded on a store that held the rows of an earlier load
C2_Witness ==
    /\ ipc = "done"
    /\ hadRows
    /\ \A t \in TableNames : Len(frames[t]) = 1

\* C7: when reset_tables drops a table, every table that declares a foreign
\* key to it is already gone, and no drop fails.
C7_ChildrenDroppedFirst ==
    /\ ipc = "reset" =>
            \A c \in Children(DropOrder[idx]) : ~work[c].exists
    /\ error # "drop"

\* orders is about to be dropped while it and customers still hold the rows
\* of an earlier load
C7_Witness ==
    /\ ipc = "reset"
    /\ DropOrder[idx] = "orders"
    /\ work["orders"].rows # <<>>
    /\ work["customers"].rows # <<>>

\* C8: no stage ends, normally or by an error, with its connection open.
C8_ConnectionReleased ==
    /\ ipc \in {"done", "aborted"} => ~connOpen
    /\ qpc \in {"done", "aborted"} => ~qconnOpen

\* C3: a run of main() with the same seed writes the files the previous run
\* wrote, whatever the date of the run.
C3_SameOutput == (run > 1 /\ gpc = "done") => files = prevFiles

\* the indices of the order items of order oid
ItemsOf(oid) == {i \in 1..Len(order_items) : order_items[i].order_id = oid}

RECURSIVE SumPriceQuantity(_)
\* the sum of price * quantity over the order items with indices in S
SumPriceQuantity(S) ==
    IF S = {} THEN 0
    ELSE LET i == CHOOSE j \in S : TRUE
         IN  order_items[i].price * order_items[i].quantity
                + SumPriceQuantity(S \ {i})

\* C4: after generate_order_items every order's total_amount is the sum of
\* price * quantity over its own items, rounded once to 2 decimals, and is
\* not the placeholder 0.
C4_OrderTotals ==
    gpc \in {"payments", "save", "done"} =>
        \A o \in 1..Len(orders) :
            /\ orders[o].total_amount
                    = Round2(SumPriceQuantity(ItemsOf(orders[o].id)))
            /\ orders[o].total_amount # 0

\* two orders, one of one item and one of two items with a quantity above 1,
\* with different totals
C4_Witness ==
    /\ gpc = "done"
    /\ \E a, b \in 1..Len(orders) :
        /\ Cardinality(ItemsOf(orders[a].id)) = 1
        /\ Cardinality(ItemsOf(orders[b].id)) = 2
        /\ \E i \in ItemsOf(orders[b].id) : order_items[i].quantity > 1
        /\ orders[a].total_amount # orders[b].total_amount

IdSet(records) == {records[i].id : i \in 1..Len(records)}

\* C5: every foreign key of the generated collections is the id of a
\* generated record, and an order item's price is its product's price.
C5_ReferentialConsistency ==
    /\ \A o \in 1..Len(orders) : orders[o].customer_id \in IdSet(customers)
    /\ \A i \in 1..Len(order_items) :
        /\ order_items[i].order_id \in IdSet(orders)
        /\ order_items[i].product_id \in IdSet(products)
        /\ \A p \in 1..Len(products) :
                products[p].id = order_items[i].product_id
                    => order_items[i].price = products[p].price
    /\ \A p \in 1..Len(payments) : payments[p].order_id \in IdSet(orders)

\* all five collections are complete and the items reference two products
\* of different prices
C5_Witness ==
    /\ gpc = "done"
    /\ Len(payments) = NUM_ORDERS
    /\ \E i, j \in 1..Len(order_items) :
        /\ order_items[i].product_id # order_items[j].product_id
        /\ order_items[i].price # order_items[j].price

\* C6: every order has exactly one payment, and no payment is dated before
\* its order.
C6_OnePaymentNotBeforeOrder ==
    /\ \A p \in 1..Len(payments) : \A o \in 1..Len(orders) :
            payments[p].order_id = orders[o].id
                => payments[p].payment_date >= orders[o].order_date
    /\ gpc \in {"save", "done"} =>
            \A o \in 1..Len(orders) :
                Cardinality({p \in 1..Len(payments) :
                                payments[p].order_id = orders[o].id}) = 1

\* an order placed today is paid today, another order is paid after its date
C6_Witness ==
    /\ gpc = "done"
    /\ \E a, b \in 1..Len(orders) :
        /\ orders[a].order_date = today
        /\ payments[a].payment_date = today
        /\ payments[b].payment_date > orders[b].order_date

\* C10: every order has 1..MAX_ITEMS items of pairwise distinct products,
\* every quantity is in 1..MAX_QUANTITY, the item ids are 1..n in order, and
\* n is between NUM_ORDERS and MAX_ITEMS * NUM_ORDERS.
C10_ItemCounts ==
    gpc \in {"payments", "save", "done"} =>
        /\ \A o \in 1..Len(orders) :
            /\ Cardinality(ItemsOf(orders[o].id)) \in 1..MAX_ITEMS
            /\ \A i, j \in ItemsOf(orders[o].id) :
                    i # j => order_items[i].product_id
                                # order_items[j].product_id
        /\ \A i \in 1..Len(order_items) :
            /\ order_items[i].quantity \in 1..MAX_QUANTITY
            /\ order_items[i].id = i
        /\ Len(order_items) >= NUM_ORDERS
        /\ Len(order_items) <= MAX_ITEMS * NUM_ORDERS

\* one order has a single item and another has MAX_ITEMS items
C10_Witness ==
    /\ gpc = "done"
    /\ \E a, b \in 1..Len(orders) :
        /\ Cardinality(ItemsOf(orders[a].id)) = 1
        /\ Cardinality(ItemsOf(orders[b].id)) = MAX_ITEMS
    /\ \E i \in 1..Len(order_items) : order_items[i].quantity = MAX_QUANTITY

\* the year-months of the orders table
OrderMonths ==
    {<<qdb.orders[i].order_date.y, qdb.orders[i].order_date.m>> :
        i \in 1..Len(qdb.orders)}

RECURSIVE SumField(_, _, _)
\* the sum of field f over the first n elements of seq
SumField(seq, f, n) ==
    IF n = 0 THEN 0 ELSE seq[n][f] + SumField(seq, f, n - 1)

Abs(x) == IF x < 0 THEN -x ELSE x

\* C9: the monthly_sales result has one row per year-month of the orders
\* table, in ascending order; each row counts the orders of its month, the
\* counts add up to the number of orders, and the revenues add up to the sum
\* of all total_amount within half a cent per row.
C9_MonthlySales ==
    qpc \in {"exit", "done"} =>
        /\ {monthly[n].order_month : n \in 1..Len(monthly)} = OrderMonths
        /\ Len(monthly) = Cardinality(OrderMonths)
        /\ \A n \in 1..(Len(monthly) - 1) :
                KeyLess(monthly[n].order_month, monthly[n + 1].order_month)
        /\ \A n \in 1..Len(monthly) :
                monthly[n].orders_count =
                    Cardinality({i \in 1..Len(qdb.orders) :
                        <<qdb.orders[i].order_date.y,
                          qdb.orders[i].order_date.m>>
                            = monthly[n].order_month})
        /\ SumField(monthly, "orders_count", Len(monthly)) = Len(qdb.orders)
        /\ Abs(SumField(monthly, "total_revenue", Len(monthly))
                - SumField(qdb.orders, "total_amount", Len(qdb.orders)))
                <= 5 * Len(monthly)

\* three orders in two months of different years, two of them in one month,
\* with a revenue that rounding changes
C9_Witness ==
    /\ qpc = "done"
    /\ Len(qdb.orders) = 3
    /\ Len(monthly) = 2
    /\ monthly[1].order_month = <<2024, 12>>
    /\ monthly[2].order_month = <<2025, 12>>
    /\ SumField(monthly, "total_revenue", Len(monthly))
            # SumField(qdb.orders, "total_amount", Len(qdb.orders))

====
